---- MODULE Spec2Model ----
(***************************************************************************)
(* Object-level permissions (olppoc/perms): the grant model                *)
(* (ObjectPermission), the authentication backend (get_all_permissions,    *)
(* get_object_permissions, has_perm), the restricted queryset (restrict),  *)
(* the permission-name helpers and modify_object_safely.                   *)
(*                                                                         *)
(* Strings whose characters matter are sequences of tokens: a permission   *)
(* name is a sequence over app labels, action words, model names and the   *)
(* separators "." and "_"; a Location name is a sequence of letters.       *)
(***************************************************************************)
EXTENDS Integers, Sequences, FiniteSets, TLC

VARIABLES
    grants,   \* the ObjectPermission table, a sequence in id order
    store,    \* the Location table: pk -> row
    objs,     \* in-memory Location instances held by callers
    snaps,    \* principal snapshots (user objects) with their _object_perm_cache
    last,     \* the last call made: its arguments and what it returned or raised
    txns      \* the calls of modify_object_safely in progress, one per caller

vars == <<grants, store, objs, snaps, last, txns>>

-----------------------------------------------------------------------------
(* Bounds of the model *)

\* how many ObjectPermission rows exist at once
MaxGrants == 2
\* how long a constraint list handed to get_filter_from_constraints is
MaxLen == 3
\* how many Location primary keys there are
NumLocations == 2
\* how many tokens a string handed to resolve_perm has
MaxPermLen == 5
\* how many tokens an action name has
MaxActionLen == 3

-----------------------------------------------------------------------------
(* Sequences *)

RECURSIVE SeqsUpTo(_, _)
\* all sequences over S of length at most n
SeqsUpTo(S, n) ==
    IF n = 0 THEN {<<>>}
    ELSE LET shorter == SeqsUpTo(S, n - 1)
         IN  shorter \cup {Append(s, x) : s \in {t \in shorter : Len(t) = n - 1}, x \in S}

\* the positions of token c in string s
Positions(s, c) == {i \in 1..Len(s) : s[i] = c}

\* the least element of a non-empty set of numbers
Least(S) == CHOOSE i \in S : \A j \in S : i <= j

\* lower-casing of a letter (the model's alphabet has the one capital "T")
LowerChar(c) == IF c = "T" THEN "t" ELSE c

Lower(s) == [i \in 1..Len(s) |-> LowerChar(s[i])]

\* needle occurs in hay as a contiguous run
Contains(hay, needle) ==
    \E k \in 0..(Len(hay) - Len(needle)) :
        \A i \in 1..Len(needle) : hay[k + i] = needle[i]

-----------------------------------------------------------------------------
(* Resource types and records *)

Types == {"location", "install"}

\* every model of the repository that carries grants lives in the installs app
AppLabel(t) == "installs"

Pks == 1..NumLocations

\* Location.name values: "n" and "nt"
NameVals == {<<"n">>, <<"n", "t">>}

DescVals == {"d0", "d1"}

\* a stored row as the query layer sees it
Row(pk, r) == [id |-> pk, name |-> r.name, description |-> r.description]

\* the Install table is not written by any operation of the library
InstallStore == [pk \in {1} |-> [present |-> TRUE, name |-> <<"n">>, description |-> "d0"]]

\* the table of a type
Table(st, t) == IF t = "location" THEN st ELSE InstallStore

-----------------------------------------------------------------------------
(* Constraint maps and their compilation (perms/utils.py) *)

\* one field condition of a constraint map: key is the field expression
Cond(k, n, s) == [key |-> k, num |-> n, str |-> s]

\* a JSON value in a constraint list: null, or a dict given as its set of items
NullMap == [null |-> TRUE, items |-> {}]
Dict(items) == [null |-> FALSE, items |-> items]

IdIs(pk) == Cond("id", pk, <<>>)
NameIs(s) == Cond("name", 0, s)
NameIContains(s) == Cond("name__icontains", 0, s)

\* the constraint maps the model draws from
MapMenu ==
    { NullMap,
      Dict({}),
      Dict({IdIs(1)}),
      Dict({NameIContains(<<"t">>)}),
      Dict({IdIs(2), NameIContains(<<"T">>)}),
      Dict({NameIs(<<"n">>)}) }

\* a field lookup evaluated on a row: exact match on id or name, or a
\* case-insensitive substring match on name
Holds(c, row) ==
    CASE c.key = "id" -> row.id = c.num
      [] c.key = "name" -> row.name = c.str
      [] c.key = "name__icontains" -> Contains(Lower(row.name), Lower(c.str))
      [] OTHER -> FALSE

\* Python truthiness of an entry of a constraint list: None and {} are falsy
Truthy(m) == ~m.null /\ m.items # {}

\* A Q object: the sequence of its ORed groups, each group the set of the
\* ANDed conditions of one Q(**constraint). Q() has no group.
EmptyQ == <<>>

\* Q(**constraint); Q(**{}) is Q()
QKwargs(m) == IF m.items = {} THEN EmptyQ ELSE <<m.items>>

\* q1 | q2: an empty Q is the identity of |
QOr(q1, q2) == IF q1 = EmptyQ THEN q2 ELSE IF q2 = EmptyQ THEN q1 ELSE q1 \o q2

\* a row passes filter(q): an empty Q filters nothing out
QMatches(q, row) ==
    \/ q = EmptyQ
    \/ \E i \in 1..Len(q) : \A c \in q[i] : Holds(c, row)

RECURSIVE FilterLoop(_, _, _)
\* the for loop of get_filter_from_constraints: <<params, has_constraints>>
FilterLoop(constraints, params, has) ==
    IF constraints = <<>> THEN <<params, has>>
    ELSE IF Truthy(Head(constraints))
         THEN FilterLoop(Tail(constraints), QOr(params, QKwargs(Head(constraints))), TRUE)
         ELSE FilterLoop(Tail(constraints), params, has)

RECURSIVE LastTruthy(_, _)
LastTruthy(constraints, params) ==
    IF constraints = <<>> THEN params
    ELSE IF Truthy(Head(constraints))
         THEN LastTruthy(Tail(constraints), QKwargs(Head(constraints)))
         ELSE LastTruthy(Tail(constraints), params)

\* "params = Q(**constraint)" in place of "params |= Q(**constraint)"
FilterAssigns(constraints) == LastTruthy(constraints, EmptyQ)

\* the variant in which one null or empty entry makes the filter unconstrained
FilterNullResets(constraints) ==
    IF \E k \in 1..Len(constraints) : ~Truthy(constraints[k]) THEN EmptyQ
    ELSE FilterLoop(constraints, EmptyQ, FALSE)[1]

get_filter_from_constraints(constraints) ==
    LET r == FilterLoop(constraints, EmptyQ, FALSE)
    IN  IF r[2] THEN r[1] ELSE EmptyQ

-----------------------------------------------------------------------------
(* Permission names (perms/utils.py) *)

\* no instance passed (obj=None)
NoInst == [type |-> "none", pk |-> 0]

View == <<"view">>
Change == <<"change">>
\* a custom action
RunReport == <<"run", "_", "report">>

\* f"{app_label}.{action}_{model_name}"
get_perm_name(t, action) == <<AppLabel(t), ".">> \o action \o <<"_", t>>

\* model._meta.label_lower of an instance
LabelLower(inst) == <<AppLabel(inst.type), ".", inst.type>>

\* what resolve_perm gives when it raises
Unresolved == [ok |-> FALSE, app_label |-> <<>>, action |-> <<>>, model_name |-> <<>>]

\* perm.split(".", 1): the string is cut at its first dot, further dots allowed
ResolvePermFirstDot(perm) ==
    LET dots == Positions(perm, ".")
    IN  IF dots = {} THEN Unresolved
        ELSE LET d == Least(dots)
                 action_model == SubSeq(perm, d + 1, Len(perm))
                 unders == Positions(action_model, "_")
             IN  IF unders = {} THEN Unresolved
                 ELSE LET u == Least(unders)
                      IN  [ok |-> TRUE,
                           app_label |-> SubSeq(perm, 1, d - 1),
                           action |-> SubSeq(action_model, 1, u - 1),
                           model_name |-> SubSeq(action_model, u + 1, Len(action_model))]

\* perm.split(".") must give two parts and the second, split at its first "_",
\* two parts again; anything else raises ValueError
resolve_perm(perm) ==
    LET dots == Positions(perm, ".")
    IN  IF Cardinality(dots) # 1
        THEN [ok |-> FALSE, app_label |-> <<>>, action |-> <<>>, model_name |-> <<>>]
        ELSE LET d == Least(dots)
                 action_model == SubSeq(perm, d + 1, Len(perm))
                 unders == Positions(action_model, "_")
             IN  IF unders = {}
                 THEN [ok |-> FALSE, app_label |-> <<>>, action |-> <<>>, model_name |-> <<>>]
                 ELSE LET u == Least(unders)
                      IN  [ok |-> TRUE,
                           app_label |-> SubSeq(perm, 1, d - 1),
                           action |-> SubSeq(action_model, 1, u - 1),
                           model_name |-> SubSeq(action_model, u + 1, Len(action_model))]

\* the ContentType rows of the models that carry grants
ContentTypes == {[app_label |-> AppLabel(t), model |-> t] : t \in Types}

NoContentType == [app_label |-> "", model |-> ""]

\* resolve_contenttype_from_perm: the ContentType and the action, or ValueError
\* from resolve_perm or from the failed ContentType lookup
resolve_contenttype_from_perm(perm) ==
    LET r == resolve_perm(perm)
        found == {ct \in ContentTypes :
                     <<ct.app_label>> = r.app_label /\ <<ct.model>> = r.model_name}
    IN  IF ~r.ok \/ found = {}
        THEN [ok |-> FALSE, content_type |-> NoContentType, action |-> <<>>]
        ELSE [ok |-> TRUE, content_type |-> CHOOSE ct \in found : TRUE, action |-> r.action]

-----------------------------------------------------------------------------
(* Principals (customuser/models.py) and groups *)

Principals == {"u1", "u2", "su", "inactive", "inactive_su", "anon"}

\* the flags of a user object; "anon" is the anonymous user of the framework
User(p) ==
    [ is_active |-> p \in {"u1", "u2", "su"},
      is_superuser |-> p \in {"su", "inactive_su"},
      is_anonymous |-> p = "anon",
      is_authenticated |-> p # "anon" ]

Groups == {"g1", "g2"}

\* user.groups: u1 is in g1, u2 in g2 (as the tests set them up)
GroupsOf(p) == IF p = "u1" THEN {"g1"} ELSE IF p = "u2" THEN {"g2"} ELSE {}

-----------------------------------------------------------------------------
(* Grants (perms/models.py ObjectPermission) *)

\* the JSON value of ObjectPermission.constraints: null, a dict or a list
JsonNull == [islist |-> FALSE, value |-> NullMap, list |-> <<>>]
JsonDict(items) == [islist |-> FALSE, value |-> Dict(items), list |-> <<>>]
JsonList(l) == [islist |-> TRUE, value |-> NullMap, list |-> l]

Grant(en, us, gs, ts, as, cs) ==
    [ enabled |-> en, users |-> us, groups |-> gs, object_types |-> ts,
      actions |-> as, constraints |-> cs ]

\* ObjectPermission.list_constraints
list_constraints(g) ==
    IF ~g.constraints.islist THEN <<g.constraints.value>> ELSE g.constraints.list

\* the filter without its group clause
PermissionFilterUsersOnly(g, p) == p \in g.users

\* Q(users=user_obj) | Q(groups__user=user_obj)
get_permission_filter(g, p) == p \in g.users \/ g.groups \cap GroupsOf(p) # {}

\* the permission names a grant covers
GrantPermNames(g) == {get_perm_name(t, a) : t \in g.object_types, a \in g.actions}

\* assignment in place of extend: a later grant replaces an earlier one's list
ExtendOverwrites(perms, g) ==
    [n \in (DOMAIN perms) \cup GrantPermNames(g) |->
        IF n \in GrantPermNames(g) THEN list_constraints(g) ELSE perms[n]]

\* perms[perm_name].extend(p.list_constraints()) for every name of one grant
Extend(perms, g) ==
    [n \in (DOMAIN perms) \cup GrantPermNames(g) |->
        (IF n \in DOMAIN perms THEN perms[n] ELSE <<>>)
        \o (IF n \in GrantPermNames(g) THEN list_constraints(g) ELSE <<>>)]

RECURSIVE Accumulate(_, _, _)
\* the loop of get_object_permissions over the filtered grants in id order
Accumulate(gs, p, perms) ==
    IF gs = <<>> THEN perms
    ELSE IF get_permission_filter(Head(gs), p) /\ Head(gs).enabled
         THEN Accumulate(Tail(gs), p, Extend(perms, Head(gs)))
         ELSE Accumulate(Tail(gs), p, perms)

get_object_permissions(gs, p) == Accumulate(gs, p, <<>>)

-----------------------------------------------------------------------------
(* Principal snapshots and the backend (perms/backends.py) *)

SnapIds == {"a", "b"}

\* a user object as fetched: no _object_perm_cache attribute yet
FreshSnap(p) == [principal |-> p, has_cache |-> FALSE, cache |-> <<>>]

\* line 14: no permissions for an inactive or anonymous user
NotActiveOrAnonymous(u) == ~u.is_active \/ u.is_anonymous

\* line 16: the cache is populated when it is missing or empty
NeedsPopulate(s) == ~s.has_cache \/ s.cache = <<>>

\* the map read before the cache was filled is the one returned
GetAllPermissionsReturnsOld(gs, s) ==
    IF NotActiveOrAnonymous(User(s.principal))
    THEN [perms |-> <<>>, snap |-> s, queried |-> FALSE]
    ELSE IF NeedsPopulate(s)
         THEN [perms |-> s.cache,
               snap |-> [s EXCEPT !.has_cache = TRUE,
                                  !.cache = get_object_permissions(gs, s.principal)],
               queried |-> TRUE]
         ELSE [perms |-> s.cache, snap |-> s, queried |-> FALSE]

\* get_all_permissions: what it returns, the user object afterwards, and
\* whether it queried the grant table
get_all_permissions(gs, s) ==
    IF NotActiveOrAnonymous(User(s.principal))
    THEN [perms |-> <<>>, snap |-> s, queried |-> FALSE]
    ELSE IF NeedsPopulate(s)
         THEN LET c == get_object_permissions(gs, s.principal)
              IN  [perms |-> c,
                   snap |-> [s EXCEPT !.has_cache = TRUE, !.cache = c],
                   queried |-> TRUE]
         ELSE [perms |-> s.cache, snap |-> s, queried |-> FALSE]

\* the cache kept on the backend, one for all user objects
WriteBackShared(ss, sid, s) ==
    [x \in DOMAIN ss |-> [ss[x] EXCEPT !.has_cache = s.has_cache, !.cache = s.cache]]

\* user_obj._object_perm_cache = ...: the attribute is set on the user object
\* the caller passed in, and on no other
WriteBack(ss, sid, s) == [ss EXCEPT ![sid] = s]

\* model.objects.filter(q_filter, pk=obj.pk).exists()
ExistsWithPk(table, q, pk) ==
    /\ pk \in DOMAIN table
    /\ table[pk].present
    /\ QMatches(q, Row(pk, table[pk]))

\* the superuser test made before the active test
EarlyAnswerSuperuserFirst(u) ==
    IF u.is_superuser THEN "True"
    ELSE IF NotActiveOrAnonymous(u) THEN "False"
    ELSE "none"

\* no superuser bypass
EarlyAnswerNoBypass(u) == IF NotActiveOrAnonymous(u) THEN "False" ELSE "none"

\* lines 45-49 of has_perm: the answers given before any grant is looked at
EarlyAnswer(u) ==
    IF NotActiveOrAnonymous(u) THEN "False"
    ELSE IF u.is_superuser THEN "True"
    ELSE "none"

\* has_perm: the result ("True", "False" or "ValueError"), the user object
\* afterwards and whether the grant table was queried
has_perm(gs, st, s, perm, inst) ==
    LET r == resolve_perm(perm)
        u == User(s.principal)
    IN  IF ~r.ok THEN [result |-> "ValueError", snap |-> s, queried |-> FALSE]
        ELSE IF EarlyAnswer(u) # "none"
        THEN [result |-> EarlyAnswer(u), snap |-> s, queried |-> FALSE]
        ELSE LET ga == get_all_permissions(gs, s)
                 out(x) == [result |-> x, snap |-> ga.snap, queried |-> ga.queried]
             IN  IF perm \notin DOMAIN ga.perms THEN out("False")
                 ELSE IF inst = NoInst THEN out("True")
                 ELSE IF LabelLower(inst) # r.app_label \o <<".">> \o r.model_name
                 THEN out("ValueError")
                 ELSE IF ExistsWithPk(Table(st, inst.type),
                                      get_filter_from_constraints(ga.perms[perm]),
                                      inst.pk)
                      THEN out("True") ELSE out("False")

-----------------------------------------------------------------------------
(* The restricted queryset (perms/querysets.py) *)

\* querysets are lazy: restrict returns the query, evaluated against the table
\* as it is when .exists() runs
AllRows == [kind |-> "all", q |-> EmptyQ]
NoRows == [kind |-> "none", q |-> EmptyQ]
Filtered(q) == [kind |-> "filter", q |-> q]

\* restrict on Model.objects: the queryset, the user object afterwards and
\* whether the grant table was queried
restrict(gs, s, t, action) ==
    LET perm_name == get_perm_name(t, action)
        u == User(s.principal)
    IN  IF u.is_superuser THEN [qs |-> AllRows, snap |-> s, queried |-> FALSE]
        ELSE IF ~u.is_authenticated THEN [qs |-> NoRows, snap |-> s, queried |-> FALSE]
        ELSE LET ga == get_all_permissions(gs, s)
             IN  IF perm_name \notin DOMAIN ga.perms
                 THEN [qs |-> NoRows, snap |-> ga.snap, queried |-> ga.queried]
                 ELSE [qs |-> Filtered(get_filter_from_constraints(ga.snap.cache[perm_name])),
                       snap |-> ga.snap, queried |-> ga.queried]

\* queryset.filter(pk=pk).exists() on a table
InQuerySet(qs, table, pk) ==
    CASE qs.kind = "all" -> pk \in DOMAIN table /\ table[pk].present
      [] qs.kind = "none" -> FALSE
      [] OTHER -> ExistsWithPk(table, qs.q, pk)

\* the primary keys a queryset yields
QuerySetPks(qs, table) == {pk \in DOMAIN table : InQuerySet(qs, table, pk)}

\* the allowed objects returned in place of self filtered by them
OnCollectionAllowedOnly(coll, qs, table) == QuerySetPks(qs, table)

\* restrict on a queryset that is already narrowed to the primary keys coll:
\* self, self.none() or self.filter(pk__in=allowed_objects)
OnCollection(coll, qs, table) == {pk \in coll : InQuerySet(qs, table, pk)}

-----------------------------------------------------------------------------
(* modify_object_safely (perms/utils.py) *)

Fields == {"id", "name", "description"}

\* an update_dict: the fields it names and their new values
Updates(fs, i, n, d) == [fields |-> fs, id |-> i, name |-> n, description |-> d]

NoUpdates == Updates({}, 0, <<>>, "")

\* for field, value in update_dict.items(): setattr(obj, field, value)
SetAttrs(o, u) ==
    [ pk |-> IF "id" \in u.fields THEN u.id ELSE o.pk,
      name |-> IF "name" \in u.fields THEN u.name ELSE o.name,
      description |-> IF "description" \in u.fields THEN u.description ELSE o.description ]

\* a save that writes the name only
SaveNameOnly(st, o) ==
    [st EXCEPT ![o.pk] = [present |-> TRUE, name |-> o.name,
                          description |-> st[o.pk].description]]

\* obj.save(): the row with the instance's pk gets every field of the instance
\* (updated when it exists, inserted when it does not)
Save(st, o) ==
    [st EXCEPT ![o.pk] = [present |-> TRUE, name |-> o.name, description |-> o.description]]

\* no rollback
AtomicExitKeeps(before, written, raised) == written

\* leaving "with transaction.atomic()": an exception rolls the writes back
AtomicExit(before, written, raised) == IF raised THEN before ELSE written

\* no check before the write
PreCheckSkipped(qs, st, o) == TRUE

\* line 73: the check of the stored instance before anything is touched
PreCheck(qs, st, o) == InQuerySet(qs, st, o.pk)

\* line 83: the check of the instance as written inside the transaction
ReCheck(qs, written, o) == InQuerySet(qs, written, o.pk)

\* the messages of the two PermissionDenied errors (lines 74 and 85)
NoPermission == "You do not have permission to modify this object."
WouldRemoveAccess ==
    "Your changes would have removed your access to this object. Aborting."

\* modify_object_safely: what it returns or raises, the instance (the object
\* it returns is the instance it was given), the table and the user object
\* afterwards
modify_object_safely(gs, st, o, s, u) ==
    LET r == restrict(gs, s, "location", Change)
    IN  IF ~PreCheck(r.qs, st, o)
        THEN [result |-> "PermissionDenied", message |-> NoPermission,
              obj |-> o, store |-> st, snap |-> r.snap, queried |-> r.queried]
        ELSE LET o2 == SetAttrs(o, u)
                 written == Save(st, o2)
                 raised == ~ReCheck(r.qs, written, o2)
             IN  [result |-> IF raised THEN "PermissionDenied" ELSE "returned",
                  message |-> IF raised THEN WouldRemoveAccess ELSE "",
                  obj |-> o2, store |-> AtomicExit(st, written, raised),
                  snap |-> r.snap, queried |-> r.queried]

-----------------------------------------------------------------------------
(* modify_object_safely, statement by statement, for callers that run at the
   same time: each caller holds an instance and a user object of its own, and
   its transaction.atomic() block is a transaction of the database *)

\* the user object of the caller that holds instance c
SnapOf(c) == IF c = "o1" THEN "a" ELSE "b"

\* where a call stands: idle (no call), checked (line 74 passed), written
\* (line 81 done), passed or denied (line 83 evaluated)
Idle ==
    [ pc |-> "idle", qs |-> NoRows, updates |-> NoUpdates, wpk |-> 0,
      wrow |-> [present |-> FALSE, name |-> <<>>, description |-> ""] ]

\* the transaction has written a row and not yet committed or rolled back
Writing(t) == t.pc \in {"written", "passed", "denied"}

\* the recheck run outside the transaction: it sees committed rows only
TxnViewCommitted(st, t) == st

\* what the queries of a transaction see: the committed rows, and its own
\* uncommitted write
TxnView(st, t) == IF Writing(t) THEN [st EXCEPT ![t.wpk] = t.wrow] ELSE st

-----------------------------------------------------------------------------
(* The last call *)


NoCall ==
    [ op |-> "none", snap |-> "none", principal |-> "none", fresh |-> FALSE,
      perm |-> <<>>, inst |-> NoInst, action |-> <<>>, copy |-> "none",
      updates |-> NoUpdates, constraints |-> <<>>, q |-> EmptyQ,
      result |-> "none", message |-> "", pks |-> {}, perms |-> <<>>,
      queried |-> FALSE, coll |-> {}, type |-> "none", prev |-> "none",
      resolved |-> Unresolved,
      ctype |-> [ok |-> FALSE, content_type |-> NoContentType, action |-> <<>>] ]

-----------------------------------------------------------------------------
(* The operations *)

Copies == {"o1", "o2"}

\* the narrowed collections restrict is called on: the first k Locations, and
\* the last one alone
Collections == {1..k : k \in 0..NumLocations} \cup {{NumLocations}}

\* the permission names callers ask about: the names of the known types and
\* actions, and a string that is no permission name
Malformed == {<<"installs", ".", "viewlocation">>}
PermArgs ==
    {get_perm_name(t, a) : t \in Types, a \in {View, Change}}
    \cup {get_perm_name("location", RunReport)}
    \cup Malformed

\* the instances callers pass: none, a Location or the Install
InstArgs ==
    {NoInst} \cup {[type |-> "location", pk |-> k] : k \in Pks}
             \cup {[type |-> "install", pk |-> 1]}

\* User.objects.get(...): a fresh user object replaces the one held in slot sid
Fetch(sid, p) ==
    /\ snaps' = [snaps EXCEPT ![sid] = FreshSnap(p)]
    /\ last' = [NoCall EXCEPT !.op = "fetch", !.snap = sid, !.principal = p]
    /\ UNCHANGED <<grants, store, objs, txns>>

HasPermCall(sid, perm, inst) ==
    LET r == has_perm(grants, store, snaps[sid], perm, inst)
    IN  /\ snaps' = WriteBack(snaps, sid, r.snap)
        /\ last' = [NoCall EXCEPT !.op = "has_perm", !.snap = sid,
                                  !.principal = snaps[sid].principal,
                                  !.fresh = ~snaps[sid].has_cache,
                                  !.perm = perm, !.inst = inst,
                                  !.result = r.result, !.queried = r.queried]
        /\ UNCHANGED <<grants, store, objs, txns>>

\* the caller asks its last has_perm question again, on the same user object
HasPermAgainCall(sid) ==
    LET r == has_perm(grants, store, snaps[sid], last.perm, last.inst)
    IN  /\ last.op \in {"has_perm", "has_perm_again"}
        /\ last.snap = sid
        /\ snaps' = WriteBack(snaps, sid, r.snap)
        /\ last' = [NoCall EXCEPT !.op = "has_perm_again", !.snap = sid,
                                  !.principal = snaps[sid].principal,
                                  !.fresh = ~snaps[sid].has_cache,
                                  !.perm = last.perm, !.inst = last.inst,
                                  !.prev = last.result,
                                  !.result = r.result, !.queried = r.queried]
        /\ UNCHANGED <<grants, store, objs, txns>>

GetAllPermissionsCall(sid) ==
    LET r == get_all_permissions(grants, snaps[sid])
    IN  /\ snaps' = WriteBack(snaps, sid, r.snap)
        /\ last' = [NoCall EXCEPT !.op = "get_all_permissions", !.snap = sid,
                                  !.principal = snaps[sid].principal,
                                  !.fresh = ~snaps[sid].has_cache,
                                  !.perms = r.perms, !.queried = r.queried]
        /\ UNCHANGED <<grants, store, objs, txns>>

\* Location.objects.restrict(user, action), evaluated
RestrictCall(sid, action) ==
    LET r == restrict(grants, snaps[sid], "location", action)
    IN  /\ snaps' = WriteBack(snaps, sid, r.snap)
        /\ last' = [NoCall EXCEPT !.op = "restrict", !.snap = sid,
                                  !.principal = snaps[sid].principal,
                                  !.fresh = ~snaps[sid].has_cache,
                                  !.action = action,
                                  !.pks = QuerySetPks(r.qs, store),
                                  !.queried = r.queried]
        /\ UNCHANGED <<grants, store, objs, txns>>

\* Location.objects.filter(pk__in=coll).restrict(user, action), evaluated
RestrictOnCall(sid, coll, action) ==
    LET r == restrict(grants, snaps[sid], "location", action)
    IN  /\ snaps' = WriteBack(snaps, sid, r.snap)
        /\ last' = [NoCall EXCEPT !.op = "restrict_on", !.snap = sid,
                                  !.principal = snaps[sid].principal,
                                  !.fresh = ~snaps[sid].has_cache,
                                  !.action = action, !.coll = coll,
                                  !.pks = OnCollection(coll, r.qs, store),
                                  !.queried = r.queried]
        /\ UNCHANGED <<grants, store, objs, txns>>

\* Location.objects.get(pk=pk): an in-memory instance of a stored row
Load(c, pk) ==
    /\ store[pk].present
    /\ objs' = [objs EXCEPT ![c] = [pk |-> pk, name |-> store[pk].name,
                                    description |-> store[pk].description]]
    /\ last' = [NoCall EXCEPT !.op = "load", !.copy = c]
    /\ UNCHANGED <<grants, store, snaps, txns>>

ModifyCall(c, sid, u) ==
    LET r == modify_object_safely(grants, store, objs[c], snaps[sid], u)
    IN  /\ store' = r.store
        /\ objs' = [objs EXCEPT ![c] = r.obj]
        /\ snaps' = WriteBack(snaps, sid, r.snap)
        /\ last' = [NoCall EXCEPT !.op = "modify_object_safely", !.snap = sid,
                                  !.principal = snaps[sid].principal,
                                  !.fresh = ~snaps[sid].has_cache,
                                  !.copy = c, !.updates = u,
                                  !.result = r.result, !.message = r.message,
                                  !.queried = r.queried]
        /\ UNCHANGED <<grants, txns>>

\* lines 72-74 of a call by the caller holding c: the queryset is built and
\* the stored instance looked up in it, outside any transaction
TxnPreCheck(c, u) ==
    LET r == restrict(grants, snaps[SnapOf(c)], "location", Change)
        ok == PreCheck(r.qs, store, objs[c])
    IN  /\ txns[c].pc = "idle"
        /\ snaps' = WriteBack(snaps, SnapOf(c), r.snap)
        /\ txns' = [txns EXCEPT ![c] =
                        IF ok THEN [Idle EXCEPT !.pc = "checked", !.qs = r.qs, !.updates = u]
                        ELSE Idle]
        /\ last' = [NoCall EXCEPT !.op = "txn_precheck", !.copy = c, !.snap = SnapOf(c),
                                  !.principal = snaps[SnapOf(c)].principal,
                                  !.updates = u,
                                  !.result = IF ok THEN "none" ELSE "PermissionDenied",
                                  !.message = IF ok THEN "" ELSE NoPermission]
        /\ UNCHANGED <<grants, store, objs>>

\* lines 77-81: the transaction begins, the fields are set and the instance is
\* saved; the write waits while another transaction holds an uncommitted write
\* of the same row
TxnWrite(c) ==
    LET o2 == SetAttrs(objs[c], txns[c].updates)
    IN  /\ txns[c].pc = "checked"
        /\ \A d \in Copies \ {c} : ~(Writing(txns[d]) /\ txns[d].wpk = o2.pk)
        /\ objs' = [objs EXCEPT ![c] = o2]
        /\ txns' = [txns EXCEPT ![c].pc = "written", ![c].wpk = o2.pk,
                                ![c].wrow = Save(store, o2)[o2.pk]]
        /\ last' = [NoCall EXCEPT !.op = "txn_write", !.copy = c, !.snap = SnapOf(c),
                                  !.principal = snaps[SnapOf(c)].principal]
        /\ UNCHANGED <<grants, store, snaps>>

\* line 83: the same queryset evaluated inside the transaction
TxnReCheck(c) ==
    LET ok == ReCheck(txns[c].qs, TxnView(store, txns[c]), objs[c])
    IN  /\ txns[c].pc = "written"
        /\ txns' = [txns EXCEPT ![c].pc = IF ok THEN "passed" ELSE "denied"]
        /\ last' = [NoCall EXCEPT !.op = "txn_recheck", !.copy = c, !.snap = SnapOf(c),
                                  !.principal = snaps[SnapOf(c)].principal]
        /\ UNCHANGED <<grants, store, objs, snaps>>

\* lines 85-88: PermissionDenied leaves the atomic block and rolls it back, or
\* the block ends, commits, and the instance is returned
TxnExit(c) ==
    LET raised == txns[c].pc = "denied"
    IN  /\ txns[c].pc \in {"passed", "denied"}
        /\ store' = AtomicExit(store, TxnView(store, txns[c]), raised)
        /\ txns' = [txns EXCEPT ![c] = Idle]
        /\ last' = [NoCall EXCEPT !.op = "txn_exit", !.copy = c, !.snap = SnapOf(c),
                                  !.principal = snaps[SnapOf(c)].principal,
                                  !.result = IF raised THEN "PermissionDenied" ELSE "returned",
                                  !.message = IF raised THEN WouldRemoveAccess ELSE ""]
        /\ UNCHANGED <<grants, objs, snaps>>

\* get_filter_from_constraints called on a constraint list
CompileCall(c) ==
    /\ last' = [NoCall EXCEPT !.op = "get_filter_from_constraints",
                              !.constraints = c,
                              !.q = get_filter_from_constraints(c)]
    /\ UNCHANGED <<grants, store, objs, snaps, txns>>

\* the words and separators permission strings are made of
PermTokens == {"installs", ".", "_", "view", "location"}

\* the action names a grant may carry: words, joined by underscores or not
ActionTokens == {"view", "run", "report", "_"}
ActionNames == SeqsUpTo(ActionTokens, MaxActionLen) \ {<<>>}

\* get_perm_name(model, action), and resolve_perm of the name it gave
NameCall(t, action) ==
    /\ last' = [NoCall EXCEPT !.op = "get_perm_name", !.type = t, !.action = action,
                              !.perm = get_perm_name(t, action),
                              !.resolved = resolve_perm(get_perm_name(t, action))]
    /\ UNCHANGED <<grants, store, objs, snaps, txns>>

\* resolve_perm(perm) and resolve_contenttype_from_perm(perm)
ResolveCall(perm) ==
    /\ last' = [NoCall EXCEPT !.op = "resolve_perm", !.perm = perm,
                              !.resolved = resolve_perm(perm),
                              !.ctype = resolve_contenttype_from_perm(perm)]
    /\ UNCHANGED <<grants, store, objs, snaps, txns>>

-----------------------------------------------------------------------------
(* Grant administration: ObjectPermission rows are created, edited and deleted
   through the ORM; a new row gets the highest id *)

CreateGrant(g) ==
    /\ Len(grants) < MaxGrants
    /\ grants' = Append(grants, g)
    /\ last' = [NoCall EXCEPT !.op = "create_grant"]
    /\ UNCHANGED <<store, objs, snaps, txns>>

SetEnabled(i, b) ==
    /\ i \in DOMAIN grants
    /\ grants[i].enabled # b
    /\ grants' = [grants EXCEPT ![i].enabled = b]
    /\ last' = [NoCall EXCEPT !.op = "set_enabled"]
    /\ UNCHANGED <<store, objs, snaps, txns>>

\* a row saved with other field values
EditGrant(i, g) ==
    /\ i \in DOMAIN grants
    /\ grants[i] # g
    /\ grants' = [grants EXCEPT ![i] = g]
    /\ last' = [NoCall EXCEPT !.op = "edit_grant"]
    /\ UNCHANGED <<store, objs, snaps, txns>>

DeleteGrant(i) ==
    /\ i \in DOMAIN grants
    /\ grants' = [k \in 1..(Len(grants) - 1) |-> IF k < i THEN grants[k] ELSE grants[k + 1]]
    /\ last' = [NoCall EXCEPT !.op = "delete_grant"]
    /\ UNCHANGED <<store, objs, snaps, txns>>

-----------------------------------------------------------------------------
(* Initial states *)

\* the grants the model draws from, in the order of their ids: a plain
\* type-level grant to u1 and variations of it in one respect at a time
\* (subject, enabled, type, action, constraints); one carries a custom action
GrantMenu ==
    << Grant(TRUE, {"u1"}, {}, {"location"}, {View}, JsonNull),
       Grant(TRUE, {}, {"g1"}, {"location"}, {View}, JsonList(<<Dict({IdIs(1)})>>)),
       Grant(TRUE, {"u2"}, {}, {"location"}, {View, Change}, JsonNull),
       Grant(FALSE, {"u1"}, {}, {"location"}, {View, Change}, JsonNull),
       Grant(TRUE, {"u1"}, {}, {"install"}, {View}, JsonList(<<>>)),
       Grant(TRUE, {"u1"}, {}, {"location"}, {Change},
             JsonList(<<Dict({NameIContains(<<"T">>)})>>)),
       Grant(TRUE, {"u1"}, {"g2"}, {"location", "install"}, {View, Change},
             JsonList(<<Dict({IdIs(1)}), Dict({})>>)),
       Grant(TRUE, {"u1"}, {}, {"location"}, {View, RunReport},
             JsonList(<<Dict({IdIs(2), NameIContains(<<"T">>)})>>)),
       Grant(TRUE, {}, {"g1"}, {"location"}, {Change}, JsonDict({NameIs(<<"n">>)})),
       Grant(TRUE, {"u1"}, {}, {"location"}, {View}, JsonList(<<NullMap, Dict({})>>)) >>

RECURSIVE Pick(_, _)
\* the entries of the menu at the positions I, in the order of their ids
Pick(I, from) ==
    IF from > Len(GrantMenu) THEN <<>>
    ELSE IF from \in I THEN <<GrantMenu[from]>> \o Pick(I, from + 1)
    ELSE Pick(I, from + 1)

\* every table of at most MaxGrants grants of the menu picked at positions of J
GrantTables(J) == {Pick(I, 1) : I \in {K \in SUBSET J : Cardinality(K) <= MaxGrants}}

\* the grants that bear on changing a Location
ChangeGrantMenu == {i \in DOMAIN GrantMenu : Change \in GrantMenu[i].actions}

\* the Location rows the tests create: "nt" and "n", alternating
InitName(pk) == IF pk % 2 = 1 THEN <<"n", "t">> ELSE <<"n">>

InitStore == [pk \in Pks |-> [present |-> TRUE, name |-> InitName(pk), description |-> "d0"]]

InitObjs == [c \in Copies |-> [pk |-> 1, name |-> InitName(1), description |-> "d0"]]

InitSnaps == [sid \in SnapIds |-> FreshSnap(IF sid = "a" THEN "u1" ELSE "u2")]

\* no call of modify_object_safely is in progress
InitTxns == [c \in Copies |-> Idle]

InitData ==
    /\ store = InitStore
    /\ objs = InitObjs
    /\ last = NoCall
    /\ txns = InitTxns

InitRest == InitData /\ snaps = InitSnaps

\* the caller holds a fresh user object of principal p
Holding(p) == snaps = [InitSnaps EXCEPT !["a"] = FreshSnap(p)]

-----------------------------------------------------------------------------
(* Specifications *)

\* the values update_dicts carry
UpdateArgs ==
    {NoUpdates}
    \cup {Updates({"name"}, 0, n, "") : n \in NameVals}
    \cup {Updates({"description"}, 0, <<>>, "d1")}
    \cup {Updates({"name", "description"}, 0, <<"n">>, "d1")}
    \cup {Updates({"id"}, k, <<>>, "") : k \in Pks}

\* the library in use: grants administered, user objects fetched and asked
\* about, Locations loaded and modified
Init == grants = <<>> /\ InitRest

Next ==
    \/ \E i \in DOMAIN GrantMenu : CreateGrant(GrantMenu[i])
    \/ \E i \in 1..MaxGrants, b \in BOOLEAN : SetEnabled(i, b)
    \/ \E i \in 1..MaxGrants : DeleteGrant(i)
    \/ \E i \in 1..MaxGrants, k \in DOMAIN GrantMenu : EditGrant(i, GrantMenu[k])
    \/ \E sid \in SnapIds, p \in Principals : Fetch(sid, p)
    \/ \E sid \in SnapIds, perm \in PermArgs, inst \in InstArgs : HasPermCall(sid, perm, inst)
    \/ \E sid \in SnapIds : HasPermAgainCall(sid)
    \/ \E sid \in SnapIds : GetAllPermissionsCall(sid)
    \/ \E sid \in SnapIds, action \in {View, Change} : RestrictCall(sid, action)
    \/ \E sid \in SnapIds, coll \in Collections, action \in {View, Change} :
           RestrictOnCall(sid, coll, action)
    \/ \E c \in Copies, pk \in Pks : Load(c, pk)
    \/ \E c \in Copies, sid \in SnapIds, u \in UpdateArgs : ModifyCall(c, sid, u)
    \/ \E c \in SeqsUpTo(MapMenu, MaxLen) : CompileCall(c)
    \/ \E t \in Types, action \in ActionNames : NameCall(t, action)
    \/ \E perm \in SeqsUpTo(PermTokens, MaxPermLen) : ResolveCall(perm)
    \/ \E c \in Copies, u \in UpdateArgs : TxnPreCheck(c, u)
    \/ \E c \in Copies : TxnWrite(c) \/ TxnReCheck(c) \/ TxnExit(c)

Spec == Init /\ [][Next]_vars

\* get_filter_from_constraints applied to every constraint list of the bounds
InitCompile == grants = <<>> /\ InitRest

NextCompile == \E c \in SeqsUpTo(MapMenu, MaxLen) : CompileCall(c)

SpecCompile == InitCompile /\ [][NextCompile]_vars

\* the permission-name helpers applied to every type, action name and string
\* of the bounds
InitNames == grants = <<>> /\ InitRest

\* the helpers are pure: one call per behaviour reaches every result
NextNames ==
    /\ last = NoCall
    /\ \/ \E t \in Types, action \in ActionNames : NameCall(t, action)
       \/ \E perm \in SeqsUpTo(PermTokens, MaxPermLen) : ResolveCall(perm)

SpecNames == InitNames /\ [][NextNames]_vars

\* the read-only calls under every table of grants of the bounds
InitAuth == grants \in GrantTables(DOMAIN GrantMenu) /\ InitRest

NextAuth ==
    \/ \E p \in Principals \ {"u2"} : Fetch("a", p)
    \/ \E perm \in PermArgs, inst \in InstArgs : HasPermCall("a", perm, inst)
    \/ GetAllPermissionsCall("a")
    \/ \E action \in {View, Change} : RestrictCall("a", action)
    \/ \E coll \in Collections, action \in {View, Change} : RestrictOnCall("a", coll, action)

SpecAuth == InitAuth /\ [][NextAuth]_vars

\* the grants administered while a user object is held and asked about
CacheGrantMenu == {2, 6}

CachePermArgs ==
    {get_perm_name("location", View), get_perm_name("location", Change)} \cup Malformed

InitCache == grants = <<>> /\ InitRest

NextCache ==
    \/ \E k \in CacheGrantMenu : CreateGrant(GrantMenu[k])
    \/ \E i \in 1..MaxGrants, k \in CacheGrantMenu : EditGrant(i, GrantMenu[k])
    \/ \E i \in 1..MaxGrants, b \in BOOLEAN : SetEnabled(i, b)
    \/ \E i \in 1..MaxGrants : DeleteGrant(i)
    \/ \E p \in {"u1", "su"} : Fetch("a", p)
    \/ GetAllPermissionsCall("a")
    \/ \E perm \in CachePermArgs, inst \in InstArgs : HasPermCall("a", perm, inst)
    \/ HasPermAgainCall("a")

SpecCache == InitCache /\ [][NextCache]_vars

\* a grant added to every table of grants of the bounds
InitGrants == grants \in GrantTables(DOMAIN GrantMenu) /\ InitRest

NextGrants == \E k \in DOMAIN GrantMenu : CreateGrant(GrantMenu[k])

SpecGrants == InitGrants /\ [][NextGrants]_vars

\* modify_object_safely under every table of change grants of the bounds
InitModify ==
    /\ grants \in GrantTables(ChangeGrantMenu)
    /\ InitData
    /\ \E p \in {"u1", "su", "anon"} : Holding(p)

NextModify ==
    \/ \E pk \in Pks : Load("o1", pk)
    \/ \E u \in UpdateArgs : ModifyCall("o1", "a", u)

SpecModify == InitModify /\ [][NextModify]_vars

\* the update_dicts of the concurrent callers
TxnUpdateArgs ==
    { Updates({"name"}, 0, <<"n">>, ""),
      Updates({"name", "description"}, 0, <<"n", "t">>, "d1"),
      Updates({"id"}, NumLocations, <<>>, "") }

\* two callers, u1 and u2, each with its own instance of the first Location,
\* run modify_object_safely at the same time
InitConcurrent == grants \in GrantTables(ChangeGrantMenu) /\ InitRest

NextConcurrent ==
    \/ \E c \in Copies, u \in TxnUpdateArgs : TxnPreCheck(c, u)
    \/ \E c \in Copies : TxnWrite(c)
    \/ \E c \in Copies : TxnReCheck(c)
    \/ \E c \in Copies : TxnExit(c)

SpecConcurrent == InitConcurrent /\ [][NextConcurrent]_vars

\* update_dicts over disjoint fields
DisjointUpdateArgs ==
    { Updates({"name"}, 0, <<"n">>, ""),
      Updates({"description"}, 0, <<>>, "d1") }

\* two callers that loaded the first Location before either wrote: a caller
\* starts a call only with its instance as loaded
InitLostUpdate == grants \in GrantTables(ChangeGrantMenu) /\ InitRest

NextLostUpdate ==
    \/ \E c \in Copies, u \in DisjointUpdateArgs : objs[c] = InitObjs[c] /\ TxnPreCheck(c, u)
    \/ \E c \in Copies : TxnWrite(c)
    \/ \E c \in Copies : TxnReCheck(c)
    \/ \E c \in Copies : TxnExit(c)

SpecLostUpdate == InitLostUpdate /\ [][NextLostUpdate]_vars

-----------------------------------------------------------------------------
(* What the specification says, in its own terms *)

WellFormed(perm) == resolve_perm(perm).ok

ActiveUser(p) == User(p).is_active /\ ~User(p).is_anonymous

\* a grant covers a permission name for a principal: it is enabled, its
\* subjects contain the principal directly or through a group, and one of its
\* types and one of its actions give the name
Covers(g, p, name) ==
    /\ g.enabled
    /\ (p \in g.users \/ \E gr \in GroupsOf(p) : gr \in g.groups)
    /\ \E t \in g.object_types, a \in g.actions : get_perm_name(t, a) = name

Covering(p, name) == {i \in DOMAIN grants : Covers(grants[i], p, name)}

\* the constraint-maps a grant carries
MapsOf(g) ==
    IF g.constraints.islist
    THEN {g.constraints.list[k] : k \in DOMAIN g.constraints.list}
    ELSE {g.constraints.value}

NonEmptyMap(m) == ~m.null /\ m.items # {}

Satisfies(row, m) == \A c \in m.items : Holds(c, row)

\* a grant with no non-empty constraint-map is unconstrained
Unconstrained(g) == \A m \in MapsOf(g) : ~NonEmptyMap(m)

\* the instance is of the type the permission name is for
OfPermType(inst, perm) ==
    inst # NoInst /\ \E a \in {View, Change} : perm = get_perm_name(inst.type, a)

\* the stored record with the instance's identity
Stored(inst) ==
    inst.pk \in DOMAIN Table(store, inst.type) /\ Table(store, inst.type)[inst.pk].present

StoredRow(inst) == Row(inst.pk, Table(store, inst.type)[inst.pk])

\* the caller of the last call is an active principal that is no superuser
OrdinaryCaller == ActiveUser(last.principal) /\ ~User(last.principal).is_superuser

HasPermCalled == last.op = "has_perm" /\ WellFormed(last.perm)

-----------------------------------------------------------------------------
(* Authorize *)

\* C1: has_perm answers False for every anonymous or inactive principal, one
\* flagged superuser included, whatever the well-formed permission name, the
\* instance and the grants.
C1_InactiveOrAnonymousIsDenied ==
    (HasPermCalled /\ ~ActiveUser(last.principal)) => last.result = "False"

C1_Witness ==
    /\ HasPermCalled
    /\ last.principal = "inactive_su"
    /\ last.inst # NoInst
    /\ grants # <<>>
    /\ last.result = "False"

\* C2: has_perm answers True for every active superuser, whatever the
\* well-formed permission name, the grants and the instance (none, of the
\* name's type or of another type), and does not query the grants for it.
C2_SuperuserIsAllowed ==
    (HasPermCalled /\ ActiveUser(last.principal) /\ User(last.principal).is_superuser)
        => (last.result = "True" /\ ~last.queried)

C2_Witness ==
    /\ HasPermCalled
    /\ last.principal = "su"
    /\ last.inst.type = "install"
    /\ last.perm = get_perm_name("location", View)
    /\ grants = <<>>
    /\ last.result = "True"

\* C3: for an active principal that is no superuser and whose user object has
\* no cache yet, the type-level check (no instance) is True exactly when some
\* enabled grant has the principal among its subjects, directly or through a
\* group, and a type and an action that give the permission name.
C3_TypeLevelIffCovered ==
    (/\ HasPermCalled
     /\ last.fresh
     /\ ActiveUser(last.principal)
     /\ ~User(last.principal).is_superuser
     /\ last.inst = NoInst)
        => (last.result = "True" <=> Covering(last.principal, last.perm) # {})

\* covered through a group only, beside a disabled grant of the principal's own
C3_Witness ==
    /\ HasPermCalled
    /\ last.fresh
    /\ last.principal = "u1"
    /\ last.inst = NoInst
    /\ last.result = "True"
    /\ \A i \in Covering("u1", last.perm) : "u1" \notin grants[i].users
    /\ \E i \in DOMAIN grants : ~grants[i].enabled

\* every grant covering the name asked about carries a non-empty constraint-map
C4_AllConstrained ==
    /\ HasPermCalled
    /\ OrdinaryCaller
    /\ \A i \in Covering(last.principal, last.perm) :
           \E m \in MapsOf(grants[i]) : NonEmptyMap(m)

\* C4 as amended: when every covering grant of an active non-superuser carries a
\* non-empty constraint-map, has_perm on an instance of the name's type is True
\* exactly when the stored record of that identity satisfies every condition of
\* at least one NON-EMPTY constraint-map of at least one covering grant; with no
\* instance it is True whatever the constraints.
C4_TrueIffSomeNonEmptyMapSatisfied ==
    C4_AllConstrained =>
        /\ OfPermType(last.inst, last.perm) =>
               (last.result = "True" <=>
                    /\ Stored(last.inst)
                    /\ \E i \in Covering(last.principal, last.perm) :
                           \E m \in MapsOf(grants[i]) :
                               NonEmptyMap(m) /\ Satisfies(StoredRow(last.inst), m))
        /\ (last.inst = NoInst /\ Covering(last.principal, last.perm) # {}) =>
               last.result = "True"

\* C4 as stated: ... satisfies every condition of at least one constraint-map
\* (empty ones included) of at least one covering grant.
C4_TrueIffSomeMapSatisfied ==
    C4_AllConstrained =>
        /\ OfPermType(last.inst, last.perm) =>
               (last.result = "True" <=>
                    /\ Stored(last.inst)
                    /\ \E i \in Covering(last.principal, last.perm) :
                           \E m \in MapsOf(grants[i]) :
                               Satisfies(StoredRow(last.inst), m))
        /\ (last.inst = NoInst /\ Covering(last.principal, last.perm) # {}) =>
               last.result = "True"

\* allowed on the second Location through one of two covering grants
C4_Witness ==
    /\ C4_AllConstrained
    /\ last.inst = [type |-> "location", pk |-> 2]
    /\ OfPermType(last.inst, last.perm)
    /\ Cardinality(Covering(last.principal, last.perm)) = 2
    /\ last.result = "True"

\* C5: when one enabled grant covering the name for the principal is
\* unconstrained, has_perm is True for every instance of the name's type and
\* restrict returns the whole collection, whatever the other covering grants
\* carry.
C5_UnconstrainedGrantOpensAll ==
    /\ (/\ HasPermCalled
        /\ OrdinaryCaller
        /\ OfPermType(last.inst, last.perm)
        /\ Stored(last.inst)
        /\ \E i \in Covering(last.principal, last.perm) : Unconstrained(grants[i]))
           => last.result = "True"
    /\ (/\ last.op = "restrict"
        /\ OrdinaryCaller
        /\ \E i \in Covering(last.principal, get_perm_name("location", last.action)) :
               Unconstrained(grants[i]))
           => last.pks = {pk \in Pks : store[pk].present}

-----------------------------------------------------------------------------
(* Compile *)

\* the records a predicate is tried on
Rows == [id : Pks, name : NameVals, description : DescVals]

Compiled == last.op = "get_filter_from_constraints"

HasNonEmptyMap(c) == \E k \in DOMAIN c : NonEmptyMap(c[k])

\* C6: for a list with at least one non-empty map, the compiled predicate
\* accepts a record exactly when the record satisfies all conditions of some
\* non-empty map of the list.
C6_OrOfAnds ==
    (Compiled /\ HasNonEmptyMap(last.constraints)) =>
        \A row \in Rows :
            QMatches(last.q, row) <=>
                \E k \in DOMAIN last.constraints :
                    /\ NonEmptyMap(last.constraints[k])
                    /\ Satisfies(row, last.constraints[k])

\* two non-empty maps, one of two conditions, with an empty one between
C6_Witness ==
    /\ Compiled
    /\ Len(last.constraints) = 3
    /\ Cardinality(last.constraints[1].items) = 2
    /\ last.constraints[2] = Dict({})
    /\ Cardinality(last.constraints[3].items) = 1
    /\ \E row \in Rows : QMatches(last.q, row)
    /\ \E row \in Rows : ~QMatches(last.q, row)

\* the list without its null and empty maps
Strip(c) == SelectSeq(c, NonEmptyMap)

\* C7: null and empty maps change nothing: the filter of a list is the filter
\* of the list without them, and it is the always-true filter when no
\* non-empty map remains.
C7_NullAndEmptyAreNoOps ==
    Compiled =>
        /\ last.q = get_filter_from_constraints(Strip(last.constraints))
        /\ ~HasNonEmptyMap(last.constraints) =>
               (last.q = EmptyQ /\ \A row \in Rows : QMatches(last.q, row))

\* [{a}, null, {b}]
C7_Witness ==
    /\ Compiled
    /\ Len(last.constraints) = 3
    /\ NonEmptyMap(last.constraints[1])
    /\ last.constraints[2] = NullMap
    /\ NonEmptyMap(last.constraints[3])
    /\ last.constraints[1] # last.constraints[3]
    /\ last.q = QKwargs(last.constraints[1]) \o QKwargs(last.constraints[3])

-----------------------------------------------------------------------------
(* ModifySafely *)

\* the step is a call of modify_object_safely
ModifyStep == last'.op = "modify_object_safely"

\* the caller's instance and user object before the step, and the update_dict
ObjBefore == objs[last'.copy]
SnapBefore == snaps[last'.snap]
ObjWritten == SetAttrs(ObjBefore, last'.updates)

\* the row of primary key pk of table st is in the restricted set of the user
\* object s for the "change" action
InChangeSet(st, s, pk) ==
    pk \in QuerySetPks(restrict(grants, s, "location", Change).qs, st)

\* the instance is in the caller's "change" set before the call
AllowedBefore == InChangeSet(store, SnapBefore, ObjBefore.pk)

\* with the update_dict applied and saved, the record is still in that set
AllowedAfterWrite == InChangeSet(Save(store, ObjWritten), SnapBefore, ObjWritten.pk)

\* C8: when the instance is in the caller's "change" set before the call and
\* the record as updated is not, modify_object_safely raises PermissionDenied
\* (it returns nothing) and the table holds exactly what it held before.
C8_SelfLockoutIsRolledBack ==
    [][(ModifyStep /\ AllowedBefore /\ ~AllowedAfterWrite) =>
           /\ last'.result = "PermissionDenied"
           /\ last'.message = WouldRemoveAccess
           /\ store' = store]_vars

\* u1 renamed a Location it may change out of its own grant
C8_Witness ==
    /\ last.op = "modify_object_safely"
    /\ last.principal = "u1"
    /\ last.message = WouldRemoveAccess
    /\ "name" \in last.updates.fields
    /\ objs[last.copy].name = last.updates.name
    /\ store[objs[last.copy].pk].name # last.updates.name

\* C9: when the instance is in the caller's "change" set before the call and
\* the record as updated still is, modify_object_safely returns the instance;
\* every field of the update_dict has its new value on the instance and in the
\* table, and the instance is in the caller's "change" set afterwards.
C9_AllowedChangeIsCommitted ==
    [][(ModifyStep /\ AllowedBefore /\ AllowedAfterWrite) =>
           LET o == objs'[last'.copy]
               u == last'.updates
           IN  /\ last'.result = "returned"
               /\ store'[o.pk].present
               /\ "id" \in u.fields => o.pk = u.id
               /\ "name" \in u.fields =>
                      (o.name = u.name /\ store'[o.pk].name = u.name)
               /\ "description" \in u.fields =>
                      (o.description = u.description
                       /\ store'[o.pk].description = u.description)
               /\ InChangeSet(store', snaps'[last'.snap], o.pk)]_vars

\* u1 changed name and description of a Location under a constrained grant
C9_Witness ==
    /\ last.op = "modify_object_safely"
    /\ last.principal = "u1"
    /\ last.result = "returned"
    /\ last.updates.fields = {"name", "description"}
    /\ store[objs[last.copy].pk].name = last.updates.name
    /\ store[objs[last.copy].pk].description = last.updates.description
    /\ \A i \in Covering("u1", get_perm_name("location", Change)) :
           ~Unconstrained(grants[i])

-----------------------------------------------------------------------------
(* Restrict *)

\* the last call is a call of restrict, on Location.objects or on a narrowed
\* queryset
Restricted == last.op \in {"restrict", "restrict_on"}

\* the members of the collection restrict was called on
Members == {pk \in (IF last.op = "restrict" THEN Pks ELSE last.coll) : store[pk].present}

\* ResolveAll of the user object that was handed to the call
ResolvedMap == get_all_permissions(grants, snaps[last.snap]).perms

\* C11: restrict returns the collection unchanged for a superuser; nothing for
\* an unauthenticated principal or one whose resolved map lacks the name of
\* (Location, action); otherwise exactly the members whose stored rows pass the
\* compiled predicate of the map's entry. The result is always a subset of the
\* collection.
C11_RestrictContract ==
    Restricted =>
        LET u == User(last.principal)
            name == get_perm_name("location", last.action)
        IN  /\ last.pks \subseteq Members
            /\ u.is_superuser => last.pks = Members
            /\ (~u.is_superuser /\ (~u.is_authenticated \/ name \notin DOMAIN ResolvedMap))
                   => last.pks = {}
            /\ (~u.is_superuser /\ u.is_authenticated /\ name \in DOMAIN ResolvedMap)
                   => last.pks =
                         {pk \in Members :
                             QMatches(get_filter_from_constraints(ResolvedMap[name]),
                                      Row(pk, store[pk]))}

\* u1 restricted the whole collection and got a proper, non-empty part of it
C11_Witness ==
    /\ last.op = "restrict_on"
    /\ last.principal = "u1"
    /\ last.coll = Pks
    /\ last.pks # {}
    /\ last.pks # Pks

-----------------------------------------------------------------------------
(* Permission names *)

\* C12: for every type and every action name, underscores included,
\* resolve_perm(get_perm_name(type, action)) gives back (app label, action,
\* model name), and no other (type, action) has the same permission name.
C12_NamesRoundTrip ==
    last.op = "get_perm_name" =>
        /\ last.resolved = [ok |-> TRUE, app_label |-> <<AppLabel(last.type)>>,
                            action |-> last.action, model_name |-> <<last.type>>]
        /\ \A t \in Types, a \in ActionNames :
               get_perm_name(t, a) = last.perm => (t = last.type /\ a = last.action)

\* the string has the shape "type.action_name": one dot, and an underscore
\* somewhere after it
HasShape(perm) ==
    /\ Cardinality({i \in DOMAIN perm : perm[i] = "."}) = 1
    /\ \E i, j \in DOMAIN perm : i < j /\ perm[i] = "." /\ perm[j] = "_"

\* the shaped string names type t: the part before the dot is the app label of
\* t, the part after the first underscore behind the dot is t
NamesType(perm, t) ==
    \E i, j \in DOMAIN perm :
        /\ perm[i] = "." /\ perm[j] = "_" /\ i < j
        /\ \A k \in (i + 1)..(j - 1) : perm[k] # "_"
        /\ SubSeq(perm, 1, i - 1) = <<AppLabel(t)>>
        /\ SubSeq(perm, j + 1, Len(perm)) = <<t>>

\* the action part of a shaped string: between the dot and the first underscore
ActionPart(perm) ==
    LET i == CHOOSE k \in DOMAIN perm : perm[k] = "."
        j == CHOOSE k \in DOMAIN perm : k > i /\ perm[k] = "_" /\
                                        \A m \in (i + 1)..(k - 1) : perm[m] # "_"
    IN  SubSeq(perm, i + 1, j - 1)

\* C13: resolve_perm raises for every string that has no dot, more than one
\* dot or no underscore after the dot, and for no other;
\* resolve_contenttype_from_perm raises for those and for every shaped string
\* that names no registered type, and otherwise returns the registered type
\* and the action.
C13_MalformedAndUnknownFail ==
    last.op = "resolve_perm" =>
        /\ last.resolved.ok <=> HasShape(last.perm)
        /\ last.ctype.ok <=> (HasShape(last.perm) /\ \E t \in Types : NamesType(last.perm, t))
        /\ last.ctype.ok =>
               /\ last.ctype.content_type \in ContentTypes
               /\ NamesType(last.perm, last.ctype.content_type.model)
               /\ last.ctype.action = ActionPart(last.perm)

\* a string of the right shape that names no registered type
C13_Witness ==
    /\ last.op = "resolve_perm"
    /\ last.resolved.ok
    /\ ~last.ctype.ok
    /\ last.resolved.app_label = <<"installs">>
    /\ Len(last.resolved.model_name) = 1

-----------------------------------------------------------------------------
(* The permission cache *)

ReadOps == {"get_all_permissions", "has_perm", "restrict", "restrict_on"}

\* no enabled grant has the principal among its subjects
NoCoveringGrant(p) ==
    \A i \in DOMAIN grants :
        ~(grants[i].enabled /\ (p \in grants[i].users \/ grants[i].groups \cap GroupsOf(p) # {}))

\* C14: for an active principal with no covering grant, the first
\* get_all_permissions on a user object queries the grants, and no later
\* get_all_permissions, has_perm or restrict on that user object queries them
\* again: a computed, empty map is kept.
C14_EmptyMapIsCached ==
    (last.op \in ReadOps /\ ActiveUser(last.principal) /\ NoCoveringGrant(last.principal)) =>
        /\ (last.op = "get_all_permissions" /\ last.fresh) => last.queried
        /\ ~last.fresh => ~last.queried

\* C15: once the map of a user object is computed, creating, enabling,
\* disabling or deleting grants changes neither what get_all_permissions
\* returns for it nor the names has_perm treats as held.
C15_NoInvalidationOnGrantChange ==
    [][(/\ last'.op \in {"create_grant", "edit_grant", "set_enabled", "delete_grant"}
        /\ \E sid \in SnapIds : snaps[sid].has_cache /\ ActiveUser(snaps[sid].principal))
           => \A sid \in SnapIds :
                  (snaps[sid].has_cache /\ ActiveUser(snaps[sid].principal)) =>
                      get_all_permissions(grants', snaps'[sid]).perms
                          = get_all_permissions(grants, snaps[sid]).perms]_vars

\* C16: asked again with the same user object, permission name and instance,
\* no grant and no row having changed in between, has_perm gives the answer
\* (or the error) it gave before, whether the first call found the cache
\* absent, empty or filled, up to date or not.
C16_HasPermIsIdempotent ==
    last.op = "has_perm_again" => last.result = last.prev

\* the answer came twice from a cache that no longer matches the grants
C16_Witness ==
    /\ last.op = "has_perm_again"
    /\ last.principal = "u1"
    /\ last.inst # NoInst
    /\ last.result = "True"
    /\ ~last.queried
    /\ snaps[last.snap].cache # get_object_permissions(grants, "u1")

-----------------------------------------------------------------------------
(* Order of the checks of Authorize, and its errors *)

\* C17: with a malformed permission name has_perm answers False for an
\* inactive or anonymous principal and True for an active superuser; it raises
\* for an active principal that is no superuser, and for no other.
C17_ChecksBeforeResolution ==
    (last.op = "has_perm" /\ ~WellFormed(last.perm)) =>
        last.result = (IF ~ActiveUser(last.principal) THEN "False"
                       ELSE IF User(last.principal).is_superuser THEN "True"
                       ELSE "ValueError")

\* the actions grants carry
GrantActions == {View, Change, RunReport}

\* the permission name is the name of the instance's type and a grant action
IssuedFor(inst, perm) == \E a \in GrantActions : perm = get_perm_name(inst.type, a)

\* the principal of the last call holds the name: some enabled grant covers it
Holds_P == Covering(last.principal, last.perm) # {}

\* C18: for an active principal that is no superuser and holds P, has_perm
\* raises exactly when an instance is passed whose type is not the type P was
\* built from; when the principal does not hold P the answer is False whatever
\* the instance.
C18_TypeMismatchIffOtherType ==
    (HasPermCalled /\ OrdinaryCaller /\ last.fresh) =>
        /\ Holds_P =>
               (last.result = "ValueError" <=>
                    (last.inst # NoInst /\ ~IssuedFor(last.inst, last.perm)))
        /\ ~Holds_P => last.result = "False"

-----------------------------------------------------------------------------
(* Frame of the read-only calls *)

\* C19: has_perm, get_all_permissions and restrict leave the grants and every
\* stored row as they are, and change no user object but the one passed in.
C19_ReadOnlyCalls ==
    [][last'.op \in ReadOps =>
           /\ grants' = grants
           /\ store' = store
           /\ objs' = objs
           /\ \A sid \in SnapIds \ {last'.snap} : snaps'[sid] = snaps[sid]
           /\ snaps'[last'.snap].principal = snaps[last'.snap].principal]_vars

\* a call filled the cache of the user object passed in; the other user object
\* has none
C19_Witness ==
    /\ last.op \in {"restrict", "restrict_on"}
    /\ last.queried
    /\ snaps[last.snap].has_cache
    /\ snaps[last.snap].cache # <<>>
    /\ \E sid \in SnapIds \ {last.snap} : ~snaps[sid].has_cache

-----------------------------------------------------------------------------
(* Concurrent ModifySafely *)

\* the caller that took the step, and its transaction before the step
Actor == last'.copy
ActorTxn == txns[Actor]

\* the row the actor's transaction wrote is in the "change" set of the actor's
\* principal when it is the stored row
WrittenRowAllowed ==
    InChangeSet([store EXCEPT ![ActorTxn.wpk] = ActorTxn.wrow],
                snaps[SnapOf(Actor)], ActorTxn.wpk)

\* C20: in every interleaving of the calls, the recheck of a call decides on
\* the row that call wrote; a call commits only a row that is in the change
\* set of its own principal, and the committed row is then the stored one; a
\* call whose row is outside that set rolls back and changes no stored row.
C20_RecheckSeesOwnWrite ==
    [][/\ last'.op = "txn_recheck" =>
              (txns'[Actor].pc = "passed" <=> WrittenRowAllowed)
       /\ (last'.op = "txn_exit" /\ last'.result = "returned") =>
              /\ WrittenRowAllowed
              /\ store'[ActorTxn.wpk] = ActorTxn.wrow
              /\ InChangeSet(store', snaps'[SnapOf(Actor)], ActorTxn.wpk)
       /\ (last'.op = "txn_exit" /\ ~WrittenRowAllowed) =>
              (last'.result = "PermissionDenied" /\ store' = store)
       /\ last'.op \in {"txn_precheck", "txn_write", "txn_recheck"} => store' = store]_vars

\* u1 committed a new name while u2's call on the same Location stood between
\* its check and its write, with the old name on its instance
C20_Witness ==
    /\ last.op = "txn_exit"
    /\ last.result = "returned"
    /\ last.copy = "o1"
    /\ snaps["a"].principal = "u1"
    /\ txns["o2"].pc = "checked"
    /\ objs["o2"].pk = objs["o1"].pk
    /\ store[objs["o1"].pk].name # objs["o2"].name

-----------------------------------------------------------------------------
(* Restrict and Authorize side by side *)

\* the instance is among what restrict gives the user object for the action,
\* out of all stored instances of the instance's type
InRestricted(s, inst, a) ==
    inst.pk \in QuerySetPks(restrict(grants, s, inst.type, a).qs, Table(store, inst.type))

\* C21: for every principal, action and stored instance, the instance is in
\* restrict(all instances of its type, principal, action) exactly when
\* has_perm(principal, name of (type, action), instance) is True.
C21_RestrictAgreesWithHasPerm ==
    (last.op = "has_perm" /\ last.inst # NoInst /\ Stored(last.inst)) =>
        \A a \in GrantActions :
            last.perm = get_perm_name(last.inst.type, a) =>
                (last.result = "True" <=> InRestricted(snaps[last.snap], last.inst, a))

-----------------------------------------------------------------------------
(* Adding a grant *)

\* has_perm and restrict on a freshly fetched user object of p under grants gs
AuthorizeUnder(gs, p, perm, inst) == has_perm(gs, store, FreshSnap(p), perm, inst).result
RestrictUnder(gs, p, a) == QuerySetPks(restrict(gs, FreshSnap(p), "location", a).qs, store)

\* C22: when an enabled grant is added, whatever has_perm answered True for an
\* active principal that is no superuser it still answers True, and restrict
\* gives at least what it gave, on fresh user objects before and after.
C22_GrantsAreMonotone ==
    [][(last'.op = "create_grant" /\ grants'[Len(grants')].enabled) =>
           \A p \in {q \in Principals : ActiveUser(q) /\ ~User(q).is_superuser} :
               /\ \A perm \in PermArgs, inst \in InstArgs :
                      AuthorizeUnder(grants, p, perm, inst) = "True"
                          => AuthorizeUnder(grants', p, perm, inst) = "True"
               /\ \A a \in {View, Change} :
                      RestrictUnder(grants, p, a) \subseteq RestrictUnder(grants', p, a)]_vars

-----------------------------------------------------------------------------
(* What ModifySafely writes *)

\* C23: a call of modify_object_safely that returns leaves every stored row
\* that was outside the caller's "change" set before the call as it was,
\* whatever the update_dict, one that assigns the primary key included.
C23_RowsOutsideChangeSetAreKept ==
    [][(ModifyStep /\ last'.result = "returned") =>
           \A pk \in Pks :
               (store[pk].present /\ ~InChangeSet(store, SnapBefore, pk))
                   => store'[pk] = store[pk]]_vars

\* the call before this step was rolled back at its recheck, on the instance
\* this step's call is made on
AfterRolledBackCall ==
    /\ last.op = "modify_object_safely"
    /\ last.message = WouldRemoveAccess
    /\ last'.copy = last.copy

\* C24: when a call that was rolled back at its recheck is followed by a call
\* on the same in-memory instance that returns, the stored row of the instance
\* differs from what it was before the first call (which is what it is before
\* the second) in no field but those of the second call's update_dict.
C24_RolledBackValuesAreNotWritten ==
    [][(AfterRolledBackCall /\ ModifyStep /\ last'.result = "returned") =>
           LET pk == objs'[last'.copy].pk
               u == last'.updates
           IN  /\ store[pk].present
               /\ "name" \notin u.fields => store'[pk].name = store[pk].name
               /\ "description" \notin u.fields =>
                      store'[pk].description = store[pk].description]_vars

-----------------------------------------------------------------------------
(* Concurrent ModifySafely on disjoint fields *)

\* a field of an instance or a row
FieldOf(r, f) == IF f = "name" THEN r.name ELSE r.description

\* the fields the call of the caller holding d assigned on its instance
Assigned(d) == {f \in {"name", "description"} : FieldOf(objs[d], f) # FieldOf(InitObjs[d], f)}

\* the call of the caller holding d wrote the row pk and committed it: the
\* stored row is the instance it saved
Committed(d, pk) ==
    /\ txns[d].pc = "idle"
    /\ objs[d].pk = pk
    /\ Assigned(d) # {}
    /\ store[pk].present
    /\ \A f \in {"name", "description"} : FieldOf(store[pk], f) = FieldOf(objs[d], f)

\* C25: when two callers, each on its own instance loaded before either wrote,
\* update disjoint fields of one stored row and both calls return, the stored
\* row carries the new values of both.
C25_NoLostUpdate ==
    [][(last'.op = "txn_exit" /\ last'.result = "returned") =>
           \A d \in Copies \ {Actor} :
               (Committed(d, ActorTxn.wpk) /\ Assigned(d) \cap ActorTxn.updates.fields = {}) =>
                   /\ \A f \in Assigned(d) :
                          FieldOf(store'[ActorTxn.wpk], f) = FieldOf(objs[d], f)
                   /\ \A f \in ActorTxn.updates.fields \cap {"name", "description"} :
                          FieldOf(store'[ActorTxn.wpk], f) = FieldOf(ActorTxn.updates, f)]_vars

====
